---- MODULE Spec2Model ----
(***************************************************************************)
(* dipwrapper: the DIP client class of src/dipwrapper.py.                  *)
(*                                                                         *)
(* One client object (apikey, fformat) serves one call at a time:          *)
(* get_resource_all, get_resource_id or get_resource_multiple.  The two    *)
(* paginating methods are Python generator functions: calling them runs    *)
(* no code of the body, each next() runs the body up to the next yield,    *)
(* return or exception.  The remote server is the environment: every       *)
(* request is answered by an arbitrary response.                           *)
(***************************************************************************)
EXTENDS Integers, Sequences, FiniteSets, TLC

(***************************************************************************)
(* Bounds of the model.                                                    *)
(***************************************************************************)
\* most requests one pagination sequence issues before the caller stops pulling
MaxFetch == 3
\* most next() calls made on a generator that has already ended
MaxStops == 1

(***************************************************************************)
(* Python values.  A query-parameter value is a str, a list of str or      *)
(* None; all three are records of one shape so that they can be compared.  *)
(***************************************************************************)
None == [kind |-> "None", items |-> <<>>]
Str(s) == [kind |-> "str", items |-> <<s>>]
List(seq) == [kind |-> "list", items |-> seq]

\* x in lst, for a Python list
In(x, lst) == \E i \in DOMAIN lst : lst[i] = x

\* the dict {}
EmptyDict == [k \in {} |-> None]

\* dict.get(key): the value, None when the key is missing
dict_get(d, key) == IF key \in DOMAIN d THEN d[key] ELSE None

\* faulty variant of d[key] = value: d.setdefault(key, value), which keeps
\* a value the key already has
dict_setdefault(d, key, value) ==
    [k \in DOMAIN d \cup {key} |-> IF k \in DOMAIN d THEN d[k] ELSE value]

\* d[key] = value
dict_set(d, key, value) ==
    [k \in DOMAIN d \cup {key} |-> IF k = key THEN value ELSE d[k]]

\* faulty variant of d.update(e): the entries of d win over those of e
dict_update_keep_existing(d, e) ==
    [k \in DOMAIN d \cup DOMAIN e |-> IF k \in DOMAIN d THEN d[k] ELSE e[k]]

\* d.update(e): the entries of e override those of d
dict_update(d, e) ==
    [k \in DOMAIN d \cup DOMAIN e |-> IF k \in DOMAIN e THEN e[k] ELSE d[k]]

(***************************************************************************)
(* Class attributes of DIP.                                                *)
(***************************************************************************)
base_url == "https://search.dip.bundestag.de/api/v1"

\* adjacent string literals concatenate: there is no comma between
\* 'plenarprotokoll-text' and 'vorgang'
doctypes == << "aktivitaet", "drucksache", "drucksache-text",
               "person", "plenarprotokoll", "plenarprotokoll-text" \o
               "vorgang", "vorgangsposition" >>

parameters == << "cursor", "format", "f.id", "f.datum.start", "f.datum.end",
                 "f.drucksache", "f.plenarprotokoll", "f.vorgang",
                 "f.aktivitaet", "f.zuordnung" >>


(***************************************************************************)
(* Outcome of a call: a returned value or a raised exception.              *)
(***************************************************************************)
Ok(v) == [raised |-> "none", value |-> v]
Raise(e) == [raised |-> e, value |-> None]

(***************************************************************************)
(* The environment: what the server answers to one requests.get.           *)
(*   status     "ok", or a failure: "neterr" (requests.get raises) or      *)
(*              "httperr" (a 4xx/5xx status, raise_for_status raises)      *)
(*   body       the encoding of the body                                   *)
(*   cursor     the cursor field / element, Absent when there is none      *)
(*   documents  the documents field / the document elements                *)
(***************************************************************************)
Absent == [kind |-> "absent", items |-> <<>>]

Cursors == {"c1", "c2"}

Pages == {List(<<"d1">>)}

Responses ==
    [status : {"ok"}, body : {"json", "xml"},
     cursor : {Absent} \cup {Str(c) : c \in Cursors},
     documents : {Absent} \cup Pages]
    \cup
    [status : {"neterr", "httperr"}, body : {"json"},
     cursor : {Absent}, documents : {Absent}]

(***************************************************************************)
(* The inputs of the calls.                                                *)
(***************************************************************************)
ApiKeys == {"KEY"}

Formats == {"json", "xml"}

\* the eight resource types of the API, the one token the class accepts
\* beyond them, and a token that is no resource type
ResourceTokens ==
    {"aktivitaet", "drucksache", "drucksache-text", "person",
     "plenarprotokoll", "plenarprotokoll-text", "vorgang",
     "vorgangsposition", "plenarprotokoll-textvorgang", "gesetz"}

Ids == {"12345"}

\* the values a caller gives to each parameter name; apikey is a name
\* outside DIP.parameters
ParamValues ==
    [k \in {"cursor", "format", "f.id", "apikey"} |->
        CASE k = "cursor" -> {Str("c1")}
          [] k = "format" -> {Str(f) : f \in Formats}
          [] k = "f.id" -> {Str("1"), List(<<"1", "2">>)}
          [] OTHER -> {Str("other")}]

ParameterMaps ==
    UNION {[K -> UNION {ParamValues[k] : k \in K}] : K \in SUBSET DOMAIN ParamValues}

ValidMap(m) == \A k \in DOMAIN m : m[k] \in ParamValues[k]

ParameterDicts == {m \in ParameterMaps : ValidMap(m)}

(***************************************************************************)
(* DIP's private methods, as functions of self.fformat and their           *)
(* arguments.                                                              *)
(***************************************************************************)
_validate_resource_type(resource) ==
    IF ~In(resource, doctypes) THEN Raise("ValueError") ELSE Ok(None)

\* faulty variant: the membership test reads the argument instead of
\* self.parameters, so that every key passes
_validate_parameter_types_shadowed(params_arg) ==
    IF \E key \in DOMAIN params_arg : key \notin DOMAIN params_arg
    THEN Raise("ValueError")
    ELSE Ok(None)

_validate_parameter_types(params_arg) ==
    IF \E key \in DOMAIN params_arg : ~In(key, parameters)
    THEN Raise("ValueError")
    ELSE Ok(None)

\* the decoded response: a dict (json) or an Element (any other format)
Decoded(kind, r) == [kind |-> kind, cursor |-> r.cursor, documents |-> r.documents]

_extract_documents(ff, response) ==
    IF ff = "json"
    THEN \* response.get('documents')
         IF response.documents = Absent THEN None ELSE response.documents
    ELSE \* response.findall('document')
         IF response.documents = Absent THEN List(<<>>) ELSE response.documents

\* faulty variant: response['cursor'] instead of response.get('cursor')
_extract_cursor_subscript(ff, response) ==
    IF response.cursor = Absent
    THEN Raise(IF ff = "json" THEN "KeyError" ELSE "AttributeError")
    ELSE Ok(response.cursor)

_extract_cursor(ff, response) ==
    IF ff = "json"
    THEN \* response.get('cursor')
         Ok(IF response.cursor = Absent THEN None ELSE response.cursor)
    ELSE \* response.find('cursor').text: find gives None when there is none
         IF response.cursor = Absent
         THEN Raise("AttributeError")
         ELSE Ok(response.cursor)

\* self._extract_cursor() of get_resource_all: the positional argument
\* 'response' is missing
_extract_cursor_noarg(ff) == Raise("TypeError")

\* faulty variant: response.raise_for_status() is left out, and the body of
\* the error response is decoded
_get_and_handle_response_unchecked(ff, r) ==
    IF r.status = "neterr" THEN Raise("ConnectionError")
    ELSE IF ff = "json"
         THEN IF r.body = "json"
              THEN Ok([kind |-> "dict", cursor |-> r.cursor,
                       documents |-> r.documents])
              ELSE Raise("JSONDecodeError")
         ELSE IF r.body = "xml"
              THEN Ok([kind |-> "Element", cursor |-> r.cursor,
                       documents |-> r.documents])
              ELSE Raise("ParseError")

_get_and_handle_response(ff, r) ==
    IF r.status = "neterr" THEN Raise("ConnectionError")
    ELSE IF r.status = "httperr" THEN Raise("HTTPError")
    ELSE IF ff = "json"
         THEN IF r.body = "json" THEN Ok(Decoded("dict", r))
                                 ELSE Raise("JSONDecodeError")
         ELSE IF r.body = "xml" THEN Ok(Decoded("Element", r))
                                ELSE Raise("ParseError")

\* f'{self.base_url}/{res_type}'
url_collection(res) == base_url \o "/" \o res

\* faulty variant: the id path segment is left out
url_document_without_id(res, id) == base_url \o "/" \o res

\* f'{self.base_url}/{res_type}/{dpi_id}'
url_document(res, id) == base_url \o "/" \o res \o "/" \o id

\* {'format': self.fformat, 'apikey': self.apikey}
base_params(ff, key) == [k \in {"format", "apikey"} |->
                            IF k = "format" THEN Str(ff) ELSE Str(key)]

\* faulty variant: the lookup uses a key the dict never has
cursor_advanced_wrong_key(ps, cursor) == dict_get(ps, "Cursor") # cursor

\* params.get('cursor') != cursor
cursor_advanced(ps, cursor) == dict_get(ps, "cursor") # cursor


(***************************************************************************)
(* State.                                                                  *)
(*   apikey, fformat   the client object (DIP.__init__)                    *)
(*   op                the method called: "none", "all", "id", "multiple"  *)
(*   res_type, dpi_id, arg_parameters   the arguments of the call          *)
(*   url, params       the locals of the method                            *)
(*   pc                "idle"      no call made yet                        *)
(*                     "created"   generator made, body not entered        *)
(*                     "suspended" generator stopped at its yield          *)
(*                     "done"      generator returned (break)              *)
(*                     "returned"  get_resource_id returned                *)
(*                     "raised"    an exception left the method            *)
(*   err               the exception that left the method, or "none"       *)
(*   requests          the requests.get calls made, in order               *)
(*   responses         what the server answered, in order                  *)
(*   cursors           the values _extract_cursor returned, in order       *)
(*   yielded           the pages handed to the caller, in order            *)
(*   result            what get_resource_id returned                       *)
(*   stops             next() calls answered by StopIteration              *)
(***************************************************************************)
VARIABLES apikey, fformat, op, res_type, dpi_id, arg_parameters,
          url, params, pc, err, requests, responses, cursors, yielded,
          result, stops

vars == << apikey, fformat, op, res_type, dpi_id, arg_parameters,
           url, params, pc, err, requests, responses, cursors, yielded,
           result, stops >>

client == << apikey, fformat >>
args == << op, res_type, dpi_id, arg_parameters >>
trace == << requests, responses, cursors, yielded >>

\* DIP(apikey, fformat)
Init ==
    /\ apikey \in ApiKeys
    /\ fformat \in Formats
    /\ op = "none"
    /\ res_type = ""
    /\ dpi_id = ""
    /\ arg_parameters = EmptyDict
    /\ url = ""
    /\ params = EmptyDict
    /\ pc = "idle"
    /\ err = "none"
    /\ requests = <<>>
    /\ responses = <<>>
    /\ cursors = <<>>
    /\ yielded = <<>>
    /\ result = None
    /\ stops = 0

\* an exception leaves the method before any request of this step
RaiseNow(e) ==
    /\ pc' = "raised"
    /\ err' = e
    /\ UNCHANGED << trace, result, stops >>

(***************************************************************************)
(* One pass through the body of 'while True' with the locals u (url) and   *)
(* ps (params), the server answering r.  c is the outcome of the call the  *)
(* method makes to extract the cursor from the decoded response.           *)
(***************************************************************************)
LoopPass(u, ps, r, c) ==
    LET h == _get_and_handle_response(fformat, r)
    IN  /\ url' = u
        /\ requests' = Append(requests, [url |-> u, params |-> ps])
        /\ responses' = Append(responses, r)
        /\ UNCHANGED << result, stops >>
        /\ IF h.raised # "none"
           THEN /\ pc' = "raised"
                /\ err' = h.raised
                /\ params' = ps
                /\ UNCHANGED << cursors, yielded >>
           ELSE IF c.raised # "none"
           THEN /\ pc' = "raised"
                /\ err' = c.raised
                /\ params' = ps
                /\ UNCHANGED << cursors, yielded >>
           ELSE /\ cursors' = Append(cursors, c.value)
                /\ err' = "none"
                /\ IF cursor_advanced(ps, c.value)
                   THEN /\ params' = dict_set(ps, "cursor", c.value)
                        /\ yielded' = Append(yielded,
                                             _extract_documents(fformat, h.value))
                        /\ pc' = "suspended"
                   ELSE /\ params' = ps
                        /\ pc' = "done"
                        /\ UNCHANGED yielded

\* cursor = self._extract_cursor(response)
ExtractWithResponse(r) ==
    _extract_cursor(fformat, _get_and_handle_response(fformat, r).value)

\* cursor = self._extract_cursor()
ExtractWithoutResponse(r) == _extract_cursor_noarg(fformat)

(***************************************************************************)
(* get_resource_all(res_type): the call makes the generator.               *)
(***************************************************************************)
get_resource_all(res) ==
    /\ pc = "idle"
    /\ op' = "all"
    /\ res_type' = res
    /\ pc' = "created"
    /\ UNCHANGED << client, dpi_id, arg_parameters, url, params, err,
                    trace, result, stops >>

\* next() on the generator of get_resource_all
get_resource_all_next(r) ==
    /\ op = "all"
    /\ UNCHANGED << client, args >>
    /\ \/ /\ pc = "created"
          /\ IF _validate_resource_type(res_type).raised # "none"
             THEN /\ RaiseNow(_validate_resource_type(res_type).raised)
                  /\ UNCHANGED << url, params >>
             ELSE LoopPass(url_collection(res_type),
                           base_params(fformat, apikey), r,
                           ExtractWithoutResponse(r))
       \/ /\ pc = "suspended"
          /\ Len(requests) < MaxFetch
          /\ LoopPass(url, params, r, ExtractWithoutResponse(r))

(***************************************************************************)
(* get_resource_id(res_type, dpi_id): an ordinary method, run to its end.  *)
(***************************************************************************)
get_resource_id(res, id, r) ==
    /\ pc = "idle"
    /\ op' = "id"
    /\ res_type' = res
    /\ dpi_id' = id
    /\ UNCHANGED << client, arg_parameters, cursors, yielded, stops >>
    /\ IF _validate_resource_type(res).raised # "none"
       THEN /\ pc' = "raised"
            /\ err' = _validate_resource_type(res).raised
            /\ UNCHANGED << url, params, requests, responses, result >>
       ELSE LET u == url_document(res, id)
                ps == base_params(fformat, apikey)
                h == _get_and_handle_response(fformat, r)
            IN  /\ url' = u
                /\ params' = ps
                /\ requests' = Append(requests, [url |-> u, params |-> ps])
                /\ responses' = Append(responses, r)
                /\ IF h.raised # "none"
                   THEN /\ pc' = "raised"
                        /\ err' = h.raised
                        /\ UNCHANGED result
                   ELSE /\ pc' = "returned"
                        /\ err' = "none"
                        /\ result' = h.value

(***************************************************************************)
(* get_resource_multiple(res_type, parameters): the call makes the         *)
(* generator.                                                              *)
(***************************************************************************)
get_resource_multiple(res, ps) ==
    /\ pc = "idle"
    /\ op' = "multiple"
    /\ res_type' = res
    /\ arg_parameters' = ps
    /\ pc' = "created"
    /\ UNCHANGED << client, dpi_id, url, params, err, trace, result, stops >>

\* next() on the generator of get_resource_multiple
get_resource_multiple_next(r) ==
    /\ op = "multiple"
    /\ UNCHANGED << client, args >>
    /\ \/ /\ pc = "created"
          /\ IF _validate_resource_type(res_type).raised # "none"
             THEN /\ RaiseNow(_validate_resource_type(res_type).raised)
                  /\ UNCHANGED << url, params >>
             ELSE LET u == url_collection(res_type)
                      ps == dict_update(base_params(fformat, apikey),
                                        arg_parameters)
                  IN  IF _validate_parameter_types(arg_parameters).raised # "none"
                      THEN /\ RaiseNow(_validate_parameter_types(arg_parameters).raised)
                           /\ url' = u
                           /\ params' = ps
                      ELSE LoopPass(u, ps, r, ExtractWithResponse(r))
       \/ /\ pc = "suspended"
          /\ Len(requests) < MaxFetch
          /\ LoopPass(url, params, r, ExtractWithResponse(r))

(***************************************************************************)
(* next() on a generator that returned or raised: StopIteration, and no    *)
(* code of the body runs.                                                  *)
(***************************************************************************)
next_after_end ==
    /\ op \in {"all", "multiple"}
    /\ pc \in {"done", "raised"}
    /\ stops < MaxStops
    /\ stops' = stops + 1
    /\ UNCHANGED << client, args, url, params, pc, err, trace, result >>

Next ==
    \/ \E res \in ResourceTokens : get_resource_all(res)
    \/ \E r \in Responses : get_resource_all_next(r)
    \/ \E res \in ResourceTokens, id \in Ids, r \in Responses :
          get_resource_id(res, id, r)
    \/ \E res \in ResourceTokens, ps \in ParameterDicts :
          get_resource_multiple(res, ps)
    \/ \E r \in Responses : get_resource_multiple_next(r)
    \/ next_after_end

Spec == Init /\ [][Next]_vars

TypeOK ==
    /\ op \in {"none", "all", "id", "multiple"}
    /\ pc \in {"idle", "created", "suspended", "done", "returned", "raised"}
    /\ arg_parameters \in ParameterDicts
    /\ Len(requests) = Len(responses)
    /\ Len(requests) <= MaxFetch
    /\ stops \in 0..MaxStops


(***************************************************************************)
(* Vocabulary of the properties.                                           *)
(***************************************************************************)
Paginating == op \in {"all", "multiple"}

\* the resource types of the DIP API
ApiResourceTypes ==
    {"aktivitaet", "drucksache", "drucksache-text", "person",
     "plenarprotokoll", "plenarprotokoll-text", "vorgang", "vorgangsposition"}

\* the parameter names of the allow-list
ParameterNames ==
    {"cursor", "format", "f.id", "f.datum.start", "f.datum.end",
     "f.drucksache", "f.plenarprotokoll", "f.vorgang", "f.aktivitaet",
     "f.zuordnung"}

\* the tokens the class accepts as resource types
Accepted(res) == \E i \in DOMAIN doctypes : doctypes[i] = res

\* response i arrived, decodes in the client's format and carries a cursor
Good(i) ==
    /\ responses[i].status = "ok"
    /\ responses[i].body = fformat
    /\ responses[i].cursor # Absent

\* the page a decodable response i holds
PageOf(i) ==
    IF fformat = "json"
    THEN IF responses[i].documents = Absent THEN None ELSE responses[i].documents
    ELSE IF responses[i].documents = Absent THEN List(<<>>) ELSE responses[i].documents

\* responses 1..i follow the server's contract: each carries a cursor that
\* differs from the one before
Advancing(i) ==
    \A j \in 1..i : Good(j) /\ (j > 1 => responses[j].cursor # responses[j-1].cursor)

Last(seq) == seq[Len(seq)]

(***************************************************************************)
(* C1: get_resource_all on a valid resource type yields the page of every  *)
(* response whose cursor differs from the one before, in order; the first  *)
(* response's page is yielded whenever that response carries a cursor.     *)
(***************************************************************************)
C1_AllYieldsAdvancingPages ==
    op = "all" =>
        \A i \in DOMAIN responses :
            Advancing(i) =>
                /\ Len(yielded) >= i
                /\ yielded[i] = PageOf(i)
                /\ (i = Len(responses) => pc = "suspended")

(***************************************************************************)
(* C2: in a pagination sequence, a fetch that extracts the cursor the      *)
(* fetch before it extracted ends the sequence: its page is not yielded,   *)
(* and afterwards no request is issued and no page is yielded.             *)
(***************************************************************************)
C2_SameCursorEnds ==
    [][ /\ ( /\ Paginating'
             /\ Len(cursors') = Len(cursors) + 1
             /\ Len(cursors) >= 1
             /\ Last(cursors') = Last(cursors) )
           => (pc' = "done" /\ yielded' = yielded /\ err' = "none")
        /\ (Paginating /\ pc = "done")
           => (pc' = "done" /\ requests' = requests /\ yielded' = yielded)
      ]_vars

C2_Witness ==
    /\ op = "multiple"
    /\ pc = "done"
    /\ Len(cursors) >= 2
    /\ cursors[Len(cursors)] = cursors[Len(cursors) - 1]
    /\ Len(yielded) = Len(requests) - 1
    /\ stops >= 1

(***************************************************************************)
(* C3, as claimed: the first request of get_resource_multiple carries no   *)
(* cursor parameter, and every later request carries the cursor extracted  *)
(* from the response before it.                                            *)
(***************************************************************************)
C3_FirstRequestHasNoCursor ==
    op = "multiple" =>
        \A i \in DOMAIN requests :
            IF i = 1
            THEN "cursor" \notin DOMAIN requests[i].params
            ELSE /\ "cursor" \in DOMAIN requests[i].params
                 /\ requests[i].params["cursor"] = cursors[i-1]

(***************************************************************************)
(* C3, amended: the first request of get_resource_multiple carries the     *)
(* caller's cursor parameter when the parameter map has one and no cursor  *)
(* parameter otherwise; every later request carries the cursor extracted   *)
(* from the response before it.                                            *)
(***************************************************************************)
C3_CursorFollowsCallerThenServer ==
    op = "multiple" =>
        \A i \in DOMAIN requests :
            IF i = 1
            THEN IF "cursor" \in DOMAIN arg_parameters
                 THEN /\ "cursor" \in DOMAIN requests[i].params
                      /\ requests[i].params["cursor"] = arg_parameters["cursor"]
                 ELSE "cursor" \notin DOMAIN requests[i].params
            ELSE /\ Len(cursors) >= i - 1
                 /\ "cursor" \in DOMAIN requests[i].params
                 /\ requests[i].params["cursor"] = cursors[i-1]

C3_Witness ==
    /\ op = "multiple"
    /\ "cursor" \in DOMAIN arg_parameters
    /\ Len(requests) >= 3
    /\ cursors[1] # cursors[2]

(***************************************************************************)
(* C4: _validate_resource_type raises ValueError exactly for the tokens    *)
(* that are no resource type of the API.                                   *)
(***************************************************************************)
C4_RejectsExactlyNonApiTypes ==
    (op \in {"all", "id"} /\ pc \notin {"idle", "created"}) =>
        (err = "ValueError" <=> res_type \notin ApiResourceTypes)

(***************************************************************************)
(* C5: a call with a resource type outside the allow-list, or a            *)
(* get_resource_multiple with a parameter name outside the allow-list,     *)
(* has issued no request, whatever the caller pulled; once its body has    *)
(* run it has failed with ValueError.                                      *)
(***************************************************************************)
InvalidCall ==
    /\ op # "none"
    /\ \/ ~Accepted(res_type)
       \/ /\ op = "multiple"
          /\ \E k \in DOMAIN arg_parameters : k \notin ParameterNames

C5_FailFast ==
    InvalidCall =>
        /\ requests = <<>>
        /\ yielded = <<>>
        /\ pc \in {"created", "raised"}
        /\ (pc = "raised" => err = "ValueError")

C5_Witness ==
    /\ op = "multiple"
    /\ Accepted(res_type)
    /\ "apikey" \in DOMAIN arg_parameters
    /\ pc = "raised"
    /\ err = "ValueError"
    /\ stops >= 1

(***************************************************************************)
(* C6: a transport failure on the k-th fetch of a pagination sequence      *)
(* leaves the generator as the transport's exception; the pages of         *)
(* fetches 1..k-1 have been yielded, and afterwards no page is yielded     *)
(* and no request is issued.                                               *)
(***************************************************************************)
C6_TransportFailureEnds ==
    [][ /\ ( /\ Paginating'
             /\ Len(responses') = Len(responses) + 1
             /\ Last(responses').status \in {"neterr", "httperr"} )
           => /\ pc' = "raised"
              /\ err' = (IF Last(responses').status = "neterr"
                         THEN "ConnectionError" ELSE "HTTPError")
              /\ yielded' = yielded
              /\ Len(yielded) = Len(responses)
              /\ \A i \in DOMAIN responses : yielded[i] = PageOf(i)
        /\ (Paginating /\ pc = "raised")
           => /\ pc' = "raised"
              /\ err' = err
              /\ requests' = requests
              /\ yielded' = yielded
      ]_vars

C6_Witness ==
    /\ op = "multiple"
    /\ pc = "raised"
    /\ err = "HTTPError"
    /\ Len(requests) = 3
    /\ Len(yielded) = 2
    /\ stops >= 1

(***************************************************************************)
(* C7: get_resource_id with an accepted resource type issues exactly one   *)
(* request, to base_url/res_type/dpi_id with no cursor parameter, extracts *)
(* no cursor, and returns the decoded response.                            *)
(***************************************************************************)
C7_SingleRequestById ==
    (op = "id" /\ Accepted(res_type)) =>
        /\ Len(requests) = 1
        /\ requests[1].url =
              "https://search.dip.bundestag.de/api/v1/" \o res_type \o "/" \o dpi_id
        /\ "cursor" \notin DOMAIN requests[1].params
        /\ cursors = <<>>
        /\ yielded = <<>>
        /\ (responses[1].status = "ok" /\ responses[1].body = fformat) =>
              /\ pc = "returned"
              /\ result.cursor = responses[1].cursor
              /\ result.documents = responses[1].documents

C7_Witness ==
    /\ op = "id"
    /\ res_type = "person"
    /\ pc = "returned"
    /\ Len(requests) = 1
    /\ result.documents # Absent

(***************************************************************************)
(* C8, as claimed: every request of get_resource_multiple carries every    *)
(* caller-supplied parameter with the caller's value.                      *)
(***************************************************************************)
C8_EveryCallerParameterKept ==
    op = "multiple" =>
        \A i \in DOMAIN requests : \A k \in DOMAIN arg_parameters :
            /\ k \in DOMAIN requests[i].params
            /\ requests[i].params[k] = arg_parameters[k]

(***************************************************************************)
(* C8, amended: every request of get_resource_multiple carries every       *)
(* caller-supplied parameter other than cursor with the caller's value, a  *)
(* list value unchanged; a caller-supplied cursor is carried by the first  *)
(* request.                                                                *)
(***************************************************************************)
C8_CallerParametersKeptButCursor ==
    op = "multiple" =>
        \A i \in DOMAIN requests : \A k \in DOMAIN arg_parameters :
            (k # "cursor" \/ i = 1) =>
                /\ k \in DOMAIN requests[i].params
                /\ requests[i].params[k] = arg_parameters[k]

C8_Witness ==
    /\ op = "multiple"
    /\ Len(requests) >= 2
    /\ "cursor" \in DOMAIN arg_parameters
    /\ "format" \in DOMAIN arg_parameters
    /\ "f.id" \in DOMAIN arg_parameters
    /\ arg_parameters["f.id"] = List(<<"1", "2">>)
    /\ requests[2].params["f.id"] = List(<<"1", "2">>)

(***************************************************************************)
(* C9: every request carries a format parameter equal to the client's      *)
(* format, the one its response is decoded with.                           *)
(***************************************************************************)
C9_RequestedFormatIsDecodedFormat ==
    \A i \in DOMAIN requests :
        /\ "format" \in DOMAIN requests[i].params
        /\ requests[i].params["format"] = Str(fformat)

(***************************************************************************)
(* C10: in json mode, when the first response of a get_resource_multiple   *)
(* started without a caller-supplied cursor has no cursor field, the       *)
(* extracted cursor is None and the sequence ends after one request, with  *)
(* no page yielded and no error.                                           *)
(***************************************************************************)
FirstResponseWithoutCursor ==
    /\ op = "multiple"
    /\ fformat = "json"
    /\ "cursor" \notin DOMAIN arg_parameters
    /\ Len(responses) >= 1
    /\ responses[1].status = "ok"
    /\ responses[1].body = "json"
    /\ responses[1].cursor = Absent

C10_MissingCursorEndsSilently ==
    FirstResponseWithoutCursor =>
        /\ cursors = << None >>
        /\ pc = "done"
        /\ err = "none"
        /\ Len(requests) = 1
        /\ yielded = <<>>

C10_Witness ==
    /\ FirstResponseWithoutCursor
    /\ responses[1].documents # Absent
    /\ pc = "done"
    /\ stops >= 1

====
